---- MODULE Spec2Model ----
(***************************************************************************)
(* Model of src/utils/functions.py: class Stock.                           *)
(*                                                                         *)
(* Stock(symbol) performs three blocking GET requests (get-chart,          *)
(* get-histories, get-statistics), stores the two decoded payloads and     *)
(* reshapes them into a price/dividend table (create_hist_df) and a flat   *)
(* statistics mapping (parse_statistics).                                  *)
(*                                                                         *)
(* Conventions                                                             *)
(*   - Python None is the empty tuple <<>>, a present value x is <<x>>.    *)
(*   - floats are integers in hundredths (10.5 is 1050, 0.25 is 25);       *)
(*     pandas' NaN is the one out-of-range value NaN.                      *)
(*   - a DataFrame is the sequence of its rows, a row is a record of its   *)
(*     columns; column 'Dividend Amount' is the field DividendAmount.      *)
(*   - a JSON object is a record; a key the object lacks is a field the    *)
(*     record lacks (reading it raises KeyError).                          *)
(*   - the transport always answers with a status and a body; a 200 body   *)
(*     of get-chart carries chart.result[0].meta.firstTradeDate.           *)
(***************************************************************************)
EXTENDS Integers, Sequences, FiniteSets, TLC

VARIABLES
    tz,                   \* UTC offset (seconds) of the process's local time zone
    pc,                   \* position of the caller / of Stock.__init__
    symbol,               \* self.symbol
    calls,                \* transport calls issued so far, with the status each returned
    first_trade_date,     \* local of fetch_stock_histories (line 55)
    jsonHistData,         \* self._jsonHistData
    jsonStatData,         \* self._jsonStatData
    df_hist,              \* local of create_hist_df (line 196), last successful run
    df_div,               \* local of create_hist_df (line 198), last successful run
    df_merged,            \* df_master right after the merge (line 200), before the fill
    df_historical_values, \* self.df_historical_values
    dict_statistics,      \* self.dict_statistics
    fault,                \* the exception that ended the construction or the call
    retHist,              \* what the latest create_hist_df() call on the instance returned
    retStat               \* what the latest parse_statistics() call on the instance returned

vars == <<tz, pc, symbol, calls, first_trade_date, jsonHistData, jsonStatData,
          df_hist, df_div, df_merged, df_historical_values, dict_statistics,
          fault, retHist, retStat>>

----------------------------------------------------------------------------
(* Values *)

None == <<>>

Some(x) == <<x>>

NaN == -1

NoFault == [type |-> "none", at |-> "none"]

Raise(type, at) == [type |-> type, at |-> at]

----------------------------------------------------------------------------
(* Bounds of the reshaping inputs *)

MaxLen == 2

MaxDiv == 2

----------------------------------------------------------------------------
(* Sample inputs *)

\* 2023-01-03 14:30 UTC, 2023-01-04 00:00 UTC, 2023-01-04 14:30 UTC
SampleTimestamps == {1672756200, 1672790400, 1672842600}

\* UTC and UTC-5
SampleZones == {0, 0 - 18000}

\* (open, close) of one trading day
SampleQuotes == {<<1000, 1020>>, <<1050, 1060>>}

SampleAmounts == {25, 50}

SampleKeys == <<"k1", "k2", "k3", "k4">>

SeqsUpTo(S, n) == UNION {[1..k -> S] : k \in 0..n}

\* the dividends object: a sequence of entries in key order, keys distinct
DividendObjects(n) ==
    {[i \in 1..Len(s) |-> [key |-> SampleKeys[i], date |-> s[i][1], amount |-> s[i][2]]] :
        s \in SeqsUpTo(SampleTimestamps \X SampleAmounts, n)}

\* chart.result[0] of a get-histories body; without dividends in the window
\* the result either has an empty dividends object or no events object at all
HistPayloads(n, d) ==
    LET days == SeqsUpTo(SampleTimestamps \X SampleQuotes, n)
        base(s) == [timestamp |-> [i \in 1..Len(s) |-> s[i][1]],
                    open      |-> [i \in 1..Len(s) |-> s[i][2][1]],
                    close     |-> [i \in 1..Len(s) |-> s[i][2][2]]]
    IN  {base(s) : s \in days}
        \cup {base(s) @@ [events |-> [dividends |-> dv]] :
                s \in days, dv \in DividendObjects(d)}

----------------------------------------------------------------------------
(* datetime.fromtimestamp(ts).strftime('%m/%d/%Y'), lines 139-140 and 224-225 *)

SecondsPerDay == 86400

Digits == <<"0", "1", "2", "3", "4", "5", "6", "7", "8", "9">>

Digit(n) == Digits[n + 1]

\* %m and %d: two digits, zero padded
Pad2(n) == Digit((n \div 10) % 10) \o Digit(n % 10)

\* %Y: four digits
Pad4(n) == Pad2(n \div 100) \o Pad2(n % 100)

\* the proleptic Gregorian date of day number z (days since 1970-01-01)
CivilFromDays(z) ==
    LET zz  == z + 719468
        era == zz \div 146097
        doe == zz - era * 146097
        yoe == (doe - doe \div 1460 + doe \div 36524 - doe \div 146096) \div 365
        doy == doe - (365 * yoe + yoe \div 4 - yoe \div 100)
        mp  == (5 * doy + 2) \div 153
        d   == doy - (153 * mp + 2) \div 5 + 1
        m   == IF mp < 10 THEN mp + 3 ELSE mp - 9
        y   == yoe + era * 400 + (IF m <= 2 THEN 1 ELSE 0)
    IN  [year |-> y, month |-> m, day |-> d]

\* the local calendar date of an epoch timestamp
fromtimestamp(ts, zone) == CivilFromDays((ts + zone) \div SecondsPerDay)

strftime_mdY(dt) == Pad2(dt.month) \o "/" \o Pad2(dt.day) \o "/" \o Pad4(dt.year)

CalendarTime(ts, zone) == strftime_mdY(fromtimestamp(ts, zone))

----------------------------------------------------------------------------
(* Reshaping: parse_timestamp, parse_values, parse_dividends, create_hist_df *)

\* self._jsonHistData['chart']['result'][0][...] on an absent payload
Subscriptable(payload) == payload # None

HasEvents(payload) == "events" \in DOMAIN payload[1]

\* lines 132-142: one date string per input timestamp, in input order
parse_timestamp(payload, zone) ==
    LET list_timestamps == payload[1].timestamp
    IN  [i \in 1..Len(list_timestamps) |-> CalendarTime(list_timestamps[i], zone)]

\* lines 181-186
parse_values_swapped(payload) == <<payload[1].close, payload[1].open>>

parse_values(payload) == <<payload[1].open, payload[1].close>>

\* pd.DataFrame(data) of line 196
TradingDayFrame_dedup(dates, opens, closes) ==
    LET keep == {i \in 1..Len(dates) : \A j \in 1..(i - 1) : dates[j] # dates[i]}
        idx[k \in 0..Len(dates)] ==
            IF k = 0 THEN <<>>
            ELSE IF k \in keep THEN Append(idx[k - 1], k) ELSE idx[k - 1]
    IN  [n \in 1..Len(idx[Len(dates)]) |->
            [Date |-> dates[idx[Len(dates)][n]], Open |-> opens[idx[Len(dates)][n]],
             Close |-> closes[idx[Len(dates)][n]]]]

TradingDayFrame(dates, opens, closes) ==
    [i \in 1..Len(dates) |-> [Date |-> dates[i], Open |-> opens[i], Close |-> closes[i]]]

\* lines 212-231: one row per entry of the dividends object, in key order
parse_dividends(payload, zone) ==
    LET dict_div == payload[1].events.dividends
    IN  [i \in 1..Len(dict_div) |->
            [Date |-> CalendarTime(dict_div[i].date, zone),
             DividendAmount |-> dict_div[i].amount]]

Dates(df) == {df[i].Date : i \in 1..Len(df)}

RECURSIVE Flatten(_)
Flatten(ss) == IF ss = <<>> THEN <<>> ELSE Head(ss) \o Flatten(Tail(ss))

\* df_hist.merge(df_div, how='outer', on='Date'), line 200: every left row
\* paired with every right row of the same Date, a left row without a
\* partner kept with a NaN amount, then every right row without a partner
\* kept with NaN prices.  (The order of the rows depends on the pandas
\* release; nothing below depends on it.)
merge_left(left, right) ==
    Flatten([i \in 1..Len(left) |->
        LET SameDate(r) == r.Date = left[i].Date
            partners    == SelectSeq(right, SameDate)
        IN  IF partners = <<>>
            THEN <<[Date |-> left[i].Date, Open |-> left[i].Open,
                    Close |-> left[i].Close, DividendAmount |-> NaN]>>
            ELSE [j \in 1..Len(partners) |->
                    [Date |-> left[i].Date, Open |-> left[i].Open,
                     Close |-> left[i].Close,
                     DividendAmount |-> partners[j].DividendAmount]]])

merge_inner(left, right) ==
    LET Matched(r) == r.Date \in Dates(right)
    IN  SelectSeq(merge_left(left, right), Matched)

merge_outer(left, right) ==
    LET Unmatched(r) == r.Date \notin Dates(left)
        rightOnly    == SelectSeq(right, Unmatched)
    IN  merge_left(left, right)
        \o [j \in 1..Len(rightOnly) |->
                [Date |-> rightOnly[j].Date, Open |-> NaN, Close |-> NaN,
                 DividendAmount |-> rightOnly[j].DividendAmount]]

\* df_master['Dividend Amount'].fillna(0), line 202
fillna_all(df) ==
    [i \in 1..Len(df) |->
        [Date |-> df[i].Date,
         Open |-> IF df[i].Open = NaN THEN 0 ELSE df[i].Open,
         Close |-> IF df[i].Close = NaN THEN 0 ELSE df[i].Close,
         DividendAmount |-> IF df[i].DividendAmount = NaN THEN 0 ELSE df[i].DividendAmount]]

fillna(df) ==
    [i \in 1..Len(df) |->
        [df[i] EXCEPT !.DividendAmount = IF @ = NaN THEN 0 ELSE @]]

\* lines 194-204.  The result names the exception raised, if any, and the
\* locals and the returned table otherwise.
create_hist_df(payload, zone) ==
    IF ~Subscriptable(payload)
    THEN [raised |-> Raise("TypeError", "create_hist_df"),
          df_hist |-> <<>>, df_div |-> <<>>, df_merged |-> <<>>, value |-> None]
    ELSE IF ~HasEvents(payload)
    THEN [raised |-> Raise("KeyError", "create_hist_df"),
          df_hist |-> <<>>, df_div |-> <<>>, df_merged |-> <<>>, value |-> None]
    ELSE LET h == TradingDayFrame(parse_timestamp(payload, zone),
                                  parse_values(payload)[1], parse_values(payload)[2])
             d == parse_dividends(payload, zone)
             m == merge_outer(h, d)
         IN  [raised |-> NoFault, df_hist |-> h, df_div |-> d, df_merged |-> m,
              value |-> Some(fillna(m))]

----------------------------------------------------------------------------
(* Statistics: the get-statistics body and parse_statistics *)

\* a body with every group and field parse_statistics reads; the numeric
\* fields are distinct, base apart from one body to the next
StatPayload(base, short, mid, long) ==
    [summaryDetail |->
        [payoutRatio              |-> [raw |-> base + 1],
         dividendRate             |-> [raw |-> base + 2],
         beta                     |-> [raw |-> base + 3],
         trailingPE               |-> [raw |-> base + 4],
         forwardPE                |-> [raw |-> base + 5],
         fiveYearAvgDividendYield |-> [raw |-> base + 6],
         dividendYield            |-> [raw |-> base + 7]],
     defaultKeyStatistics |->
        [forwardEps  |-> [raw |-> base + 8],
         trailingEps |-> [raw |-> base + 9]],
     financialData |->
        [ebitdaMargins     |-> [raw |-> base + 10],
         profitMargins     |-> [raw |-> base + 11],
         grossMargins      |-> [raw |-> base + 12],
         operatingCashflow |-> [raw |-> base + 13],
         revenueGrowth     |-> [raw |-> base + 14],
         operatingMargins  |-> [raw |-> base + 15],
         grossProfits      |-> [raw |-> base + 16],
         freeCashflow      |-> [raw |-> base + 17],
         earningsGrowth    |-> [raw |-> base + 18]],
     pageViews |->
        [shortTermTrend |-> short, midTermTrend |-> mid, longTermTrend |-> long]]

Without(obj, key) == [k \in DOMAIN obj \ {key} |-> obj[k]]

CompleteStatPayloads ==
    {StatPayload(100, "UP", "DOWN", "NEUTRAL"), StatPayload(200, "NEUTRAL", "UP", "DOWN")}

\* bodies of a ticker the provider covers only in part
PartialStatPayloads ==
    {Without(StatPayload(100, "UP", "DOWN", "NEUTRAL"), "pageViews"),
     [StatPayload(200, "NEUTRAL", "UP", "DOWN") EXCEPT
        !.summaryDetail = Without(@, "payoutRatio")]}

StatPayloads == CompleteStatPayloads \cup PartialStatPayloads

\* the groups and fields lines 151-171 subscript
RequiredFields ==
    [summaryDetail |-> {"payoutRatio", "dividendRate", "beta", "trailingPE", "forwardPE",
                        "fiveYearAvgDividendYield", "dividendYield"},
     defaultKeyStatistics |-> {"forwardEps", "trailingEps"},
     financialData |-> {"ebitdaMargins", "profitMargins", "grossMargins",
                        "operatingCashflow", "revenueGrowth", "operatingMargins",
                        "grossProfits", "freeCashflow", "earningsGrowth"},
     pageViews |-> {"shortTermTrend", "midTermTrend", "longTermTrend"}]

HasRequiredFields(payload) ==
    \A g \in DOMAIN RequiredFields :
        /\ g \in DOMAIN payload[1]
        /\ RequiredFields[g] \subseteq DOMAIN payload[1][g]

\* lines 150-172, with forward_pe read from the trailingPE field
dict_stats_crossed(j) ==
    [payout_ratio            |-> j.summaryDetail.payoutRatio.raw,
     dividend_rate           |-> j.summaryDetail.dividendRate.raw,
     beta                    |-> j.summaryDetail.beta.raw,
     trailing_pe             |-> j.summaryDetail.trailingPE.raw,
     forward_pe              |-> j.summaryDetail.trailingPE.raw,
     five_year_avg_div_yield |-> j.summaryDetail.fiveYearAvgDividendYield.raw,
     div_yield               |-> j.summaryDetail.dividendYield.raw,
     forward_eps             |-> j.defaultKeyStatistics.forwardEps.raw,
     trailing_eps            |-> j.defaultKeyStatistics.trailingEps.raw,
     ebitda_margins          |-> j.financialData.ebitdaMargins.raw,
     profit_margins          |-> j.financialData.profitMargins.raw,
     gross_margins           |-> j.financialData.grossMargins.raw,
     op_cashflow             |-> j.financialData.operatingCashflow.raw,
     revenue_growth          |-> j.financialData.revenueGrowth.raw,
     operating_margins       |-> j.financialData.operatingMargins.raw,
     gross_profits           |-> j.financialData.grossProfits.raw,
     free_cashflow           |-> j.financialData.freeCashflow.raw,
     earnings_growth         |-> j.financialData.earningsGrowth.raw,
     page_short_term_trend   |-> j.pageViews.shortTermTrend,
     page_mid_term_trend     |-> j.pageViews.midTermTrend,
     page_long_term_trend    |-> j.pageViews.longTermTrend]

\* lines 150-172
dict_stats(j) ==
    [payout_ratio            |-> j.summaryDetail.payoutRatio.raw,
     dividend_rate           |-> j.summaryDetail.dividendRate.raw,
     beta                    |-> j.summaryDetail.beta.raw,
     trailing_pe             |-> j.summaryDetail.trailingPE.raw,
     forward_pe              |-> j.summaryDetail.forwardPE.raw,
     five_year_avg_div_yield |-> j.summaryDetail.fiveYearAvgDividendYield.raw,
     div_yield               |-> j.summaryDetail.dividendYield.raw,
     forward_eps             |-> j.defaultKeyStatistics.forwardEps.raw,
     trailing_eps            |-> j.defaultKeyStatistics.trailingEps.raw,
     ebitda_margins          |-> j.financialData.ebitdaMargins.raw,
     profit_margins          |-> j.financialData.profitMargins.raw,
     gross_margins           |-> j.financialData.grossMargins.raw,
     op_cashflow             |-> j.financialData.operatingCashflow.raw,
     revenue_growth          |-> j.financialData.revenueGrowth.raw,
     operating_margins       |-> j.financialData.operatingMargins.raw,
     gross_profits           |-> j.financialData.grossProfits.raw,
     free_cashflow           |-> j.financialData.freeCashflow.raw,
     earnings_growth         |-> j.financialData.earningsGrowth.raw,
     page_short_term_trend   |-> j.pageViews.shortTermTrend,
     page_mid_term_trend     |-> j.pageViews.midTermTrend,
     page_long_term_trend    |-> j.pageViews.longTermTrend]

\* a parse_statistics that answers an absent payload with an empty mapping
parse_statistics_lenient(payload) ==
    IF ~Subscriptable(payload)
    THEN [raised |-> NoFault, value |-> Some(<<>>)]
    ELSE IF ~HasRequiredFields(payload)
    THEN [raised |-> Raise("KeyError", "parse_statistics"), value |-> None]
    ELSE [raised |-> NoFault, value |-> Some(dict_stats(payload[1]))]

\* lines 144-174
parse_statistics(payload) ==
    IF ~Subscriptable(payload)
    THEN [raised |-> Raise("TypeError", "parse_statistics"), value |-> None]
    ELSE IF ~HasRequiredFields(payload)
    THEN [raised |-> Raise("KeyError", "parse_statistics"), value |-> None]
    ELSE [raised |-> NoFault, value |-> Some(dict_stats(payload[1]))]

----------------------------------------------------------------------------
(* Construction: Stock.__init__ and the three lookups *)

SampleSymbols == {"aapl", "Msft"}

\* str.upper on the sample symbols
upper(sym) == CASE sym = "aapl" -> "AAPL"
                [] sym = "Msft" -> "MSFT"
                [] OTHER        -> sym

\* response.status_code: success and one failure
SampleStatuses == {200, 404}

\* meta.firstTradeDate of a get-chart body: 1980-12-12 14:30 UTC
SampleFirstTradeDates == {345479400}

\* bodies the history lookup may deliver during a construction
SampleHistBodies == HistPayloads(1, 1)

Request(endpoint, from, status) ==
    [endpoint |-> endpoint, symbol |-> symbol, from |-> from, status |-> status]

\* line 34, up to the call of line 55
Stock_init ==
    /\ pc = "new"
    /\ \E sym \in SampleSymbols : symbol' = upper(sym)
    /\ pc' = "fetch_stock_first_trade_date"
    /\ UNCHANGED <<tz, calls, first_trade_date, jsonHistData, jsonStatData, df_hist,
                   df_div, df_merged, df_historical_values, dict_statistics, fault,
                   retHist, retStat>>

\* lines 100-124, called from line 55
fetch_stock_first_trade_date ==
    /\ pc = "fetch_stock_first_trade_date"
    /\ \E status \in SampleStatuses, date \in SampleFirstTradeDates :
        /\ calls' = Append(calls, Request("get-chart", None, status))
        /\ first_trade_date' = IF status = 200 THEN Some(date) ELSE None
    /\ pc' = "fetch_stock_histories"
    /\ UNCHANGED <<tz, symbol, jsonHistData, jsonStatData, df_hist, df_div, df_merged,
                   df_historical_values, dict_statistics, fault, retHist, retStat>>

\* a history lookup that asks again after a failure (once)
fetch_stock_histories_retrying ==
    /\ pc = "fetch_stock_histories"
    /\ \E status \in SampleStatuses, body \in SampleHistBodies :
        /\ calls' = Append(calls, Request("get-histories", first_trade_date, status))
        /\ jsonHistData' = IF status = 200 THEN Some(body) ELSE None
        /\ pc' = IF status # 200 /\ Len(calls) < 2
                 THEN "fetch_stock_histories" ELSE "fetch_stock_statistics"
    /\ UNCHANGED <<tz, symbol, first_trade_date, jsonStatData, df_hist, df_div,
                   df_merged, df_historical_values, dict_statistics, fault, retHist,
                   retStat>>

\* lines 57-75, and the assignment of line 35
fetch_stock_histories ==
    /\ pc = "fetch_stock_histories"
    /\ \E status \in SampleStatuses, body \in SampleHistBodies :
        /\ calls' = Append(calls, Request("get-histories", first_trade_date, status))
        /\ jsonHistData' = IF status = 200 THEN Some(body) ELSE None
    /\ pc' = "fetch_stock_statistics"
    /\ UNCHANGED <<tz, symbol, first_trade_date, jsonStatData, df_hist, df_div,
                   df_merged, df_historical_values, dict_statistics, fault, retHist,
                   retStat>>

\* lines 77-98, and the assignment of line 36
fetch_stock_statistics ==
    /\ pc = "fetch_stock_statistics"
    /\ \E status \in SampleStatuses, body \in StatPayloads :
        /\ calls' = Append(calls, Request("get-statistics", None, status))
        /\ jsonStatData' = IF status = 200 THEN Some(body) ELSE None
    /\ pc' = "create_hist_df"
    /\ UNCHANGED <<tz, symbol, first_trade_date, jsonHistData, df_hist, df_div,
                   df_merged, df_historical_values, dict_statistics, fault, retHist,
                   retStat>>

\* line 37
Init_create_hist_df ==
    /\ pc = "create_hist_df"
    /\ LET r == create_hist_df(jsonHistData, tz)
       IN  IF r.raised # NoFault
           THEN /\ fault' = r.raised
                /\ pc' = "raised"
                /\ UNCHANGED <<df_hist, df_div, df_merged, df_historical_values>>
           ELSE /\ df_hist' = r.df_hist
                /\ df_div' = r.df_div
                /\ df_merged' = r.df_merged
                /\ df_historical_values' = r.value
                /\ pc' = "parse_statistics"
                /\ UNCHANGED fault
    /\ UNCHANGED <<tz, symbol, calls, first_trade_date, jsonHistData, jsonStatData,
                   dict_statistics, retHist, retStat>>

\* line 38
Init_parse_statistics ==
    /\ pc = "parse_statistics"
    /\ LET r == parse_statistics(jsonStatData)
       IN  IF r.raised # NoFault
           THEN /\ fault' = r.raised
                /\ pc' = "raised"
                /\ UNCHANGED dict_statistics
           ELSE /\ dict_statistics' = r.value
                /\ pc' = "constructed"
                /\ UNCHANGED fault
    /\ UNCHANGED <<tz, symbol, calls, first_trade_date, jsonHistData, jsonStatData,
                   df_hist, df_div, df_merged, df_historical_values, retHist, retStat>>

----------------------------------------------------------------------------
(* Calls on a constructed instance *)

\* a create_hist_df whose parse_timestamp empties the payload's timestamp
\* list while reading it
Call_create_hist_df_draining ==
    /\ pc = "constructed"
    /\ LET r == create_hist_df(jsonHistData, tz)
       IN  /\ retHist' = r.value
           /\ df_hist' = r.df_hist
           /\ df_div' = r.df_div
           /\ df_merged' = r.df_merged
    /\ jsonHistData' = Some([jsonHistData[1] EXCEPT !.timestamp = <<>>])
    /\ UNCHANGED <<tz, pc, symbol, calls, first_trade_date, jsonStatData,
                   df_historical_values, dict_statistics, fault, retStat>>

\* my_stock.create_hist_df(), lines 188-204
Call_create_hist_df ==
    /\ pc = "constructed"
    /\ LET r == create_hist_df(jsonHistData, tz)
       IN  /\ retHist' = r.value
           /\ df_hist' = r.df_hist
           /\ df_div' = r.df_div
           /\ df_merged' = r.df_merged
    /\ UNCHANGED <<tz, pc, symbol, calls, first_trade_date, jsonHistData, jsonStatData,
                   df_historical_values, dict_statistics, fault, retStat>>

\* my_stock.parse_statistics(), lines 144-174
Call_parse_statistics ==
    /\ pc = "constructed"
    /\ retStat' = parse_statistics(jsonStatData).value
    /\ UNCHANGED <<tz, pc, symbol, calls, first_trade_date, jsonHistData, jsonStatData,
                   df_hist, df_div, df_merged, df_historical_values, dict_statistics,
                   fault, retHist>>

----------------------------------------------------------------------------
(* The construction of one Stock and its later use *)

Init ==
    /\ tz \in SampleZones
    /\ pc = "new"
    /\ symbol = ""
    /\ calls = <<>>
    /\ first_trade_date = None
    /\ jsonHistData = None
    /\ jsonStatData = None
    /\ df_hist = <<>>
    /\ df_div = <<>>
    /\ df_merged = <<>>
    /\ df_historical_values = None
    /\ dict_statistics = None
    /\ fault = NoFault
    /\ retHist = None
    /\ retStat = None

Next ==
    \/ Stock_init
    \/ fetch_stock_first_trade_date
    \/ fetch_stock_histories
    \/ fetch_stock_statistics
    \/ Init_create_hist_df
    \/ Init_parse_statistics
    \/ Call_create_hist_df
    \/ Call_parse_statistics

Spec == Init /\ [][Next]_vars

----------------------------------------------------------------------------
(* create_hist_df as a function of the history payload and the time zone *)

InitReshape ==
    /\ tz \in SampleZones
    /\ pc = "payload"
    /\ symbol = "AAPL"
    /\ calls = <<>>
    /\ first_trade_date = None
    /\ jsonHistData \in {Some(p) : p \in HistPayloads(MaxLen, MaxDiv)}
    /\ jsonStatData = None
    /\ df_hist = <<>>
    /\ df_div = <<>>
    /\ df_merged = <<>>
    /\ df_historical_values = None
    /\ dict_statistics = None
    /\ fault = NoFault
    /\ retHist = None
    /\ retStat = None

\* create_hist_df applied to the drawn payload, lines 188-204
Apply_create_hist_df ==
    /\ pc = "payload"
    /\ LET r == create_hist_df(jsonHistData, tz)
       IN  /\ fault' = r.raised
           /\ df_hist' = r.df_hist
           /\ df_div' = r.df_div
           /\ df_merged' = r.df_merged
           /\ retHist' = r.value
           /\ pc' = IF r.raised # NoFault THEN "raised" ELSE "returned"
    /\ UNCHANGED <<tz, symbol, calls, first_trade_date, jsonHistData, jsonStatData,
                   df_historical_values, dict_statistics, retStat>>

NextReshape == Apply_create_hist_df

SpecReshape == InitReshape /\ [][NextReshape]_vars

----------------------------------------------------------------------------
(* Properties of create_hist_df, checked under SpecReshape *)

\* the local calendar dates of the sample timestamps, from the calendar
ExpectedDate(ts, zone) ==
    CASE ts = 1672756200 -> "01/03/2023"
      [] ts = 1672790400 -> IF zone = 0 THEN "01/04/2023" ELSE "01/03/2023"
      [] ts = 1672842600 -> "01/04/2023"

Returned == pc = "returned"

InTimestamps == jsonHistData[1].timestamp

InOpen == jsonHistData[1].open

InClose == jsonHistData[1].close

InDividends == jsonHistData[1].events.dividends

TradingDates == {ExpectedDate(InTimestamps[i], tz) : i \in 1..Len(InTimestamps)}

DividendDates == {ExpectedDate(InDividends[k].date, tz) : k \in 1..Len(InDividends)}

\* how many trading timestamps, dividend events, rows of a table fall on date d
TradingOn(d) == Cardinality({i \in 1..Len(InTimestamps) : ExpectedDate(InTimestamps[i], tz) = d})

DividendsOn(d) == Cardinality({k \in 1..Len(InDividends) : ExpectedDate(InDividends[k].date, tz) = d})

RowsOn(df, d) == Cardinality({n \in 1..Len(df) : df[n].Date = d})

\* C3 as stated: the dates of the returned table are the union of the
\* trading dates and the dividend dates, and every date has exactly one row,
\* also when several timestamps or several events fall on one date.
C3_EveryDateExactlyOnce ==
    Returned =>
        /\ Dates(retHist[1]) = TradingDates \cup DividendDates
        /\ \A d \in TradingDates \cup DividendDates : RowsOn(retHist[1], d) = 1

\* C3 as amended: the dates of the returned table are the union of the
\* trading dates and the dividend dates; a date on which h trading
\* timestamps and v dividend events fall has h * v rows when both are
\* positive and h + v rows otherwise, hence exactly one row when at most one
\* timestamp and at most one event fall on it.
C3_DateUnionWithMultiplicity ==
    Returned =>
        /\ Dates(retHist[1]) = TradingDates \cup DividendDates
        /\ \A d \in TradingDates \cup DividendDates :
            LET h == TradingOn(d)
                v == DividendsOn(d)
            IN  /\ RowsOn(retHist[1], d) = IF h > 0 /\ v > 0 THEN h * v ELSE h + v
                /\ (h <= 1 /\ v <= 1) => RowsOn(retHist[1], d) = 1

\* a table was returned for a payload with two timestamps on one date, and
\* with a date only a dividend falls on
C3_Witness ==
    /\ Returned
    /\ \E d \in TradingDates : TradingOn(d) = 2
    /\ DividendDates \ TradingDates # {}

\* C4 as stated: for every fetched history payload, also one without any
\* dividend event, create_hist_df returns a table; no row of it has a null
\* Dividend Amount and a trading date without a dividend has amount 0.
C4_ZeroDividendTable ==
    pc # "payload" =>
        /\ Returned
        /\ \A n \in 1..Len(retHist[1]) :
            /\ retHist[1][n].DividendAmount # NaN
            /\ retHist[1][n].Date \in TradingDates \ DividendDates
                => retHist[1][n].DividendAmount = 0

\* C5 as stated: a dividend event on the date of a trading timestamp gives
\* exactly one row for that date, carrying the amount and that timestamp's
\* open and close.
C5_OneRowPerMatchedDividend ==
    Returned =>
        \A i \in 1..Len(InTimestamps), k \in 1..Len(InDividends) :
            ExpectedDate(InTimestamps[i], tz) = ExpectedDate(InDividends[k].date, tz) =>
                /\ RowsOn(retHist[1], ExpectedDate(InTimestamps[i], tz)) = 1
                /\ \E n \in 1..Len(retHist[1]) :
                    retHist[1][n] = [Date |-> ExpectedDate(InTimestamps[i], tz),
                                     Open |-> InOpen[i], Close |-> InClose[i],
                                     DividendAmount |-> InDividends[k].amount]

\* the scenario: trading days 2023-01-03 and 2023-01-04, opens 10.0 and
\* 10.5, closes 10.2 and 10.6, one dividend of 0.25 on 2023-01-04
ScenarioPayload ==
    [timestamp |-> <<1672756200, 1672842600>>,
     open      |-> <<1000, 1050>>,
     close     |-> <<1020, 1060>>,
     events    |-> [dividends |-> <<[key |-> "k1", date |-> 1672842600, amount |-> 25]>>]]

ScenarioRows ==
    {[Date |-> "01/03/2023", Open |-> 1000, Close |-> 1020, DividendAmount |-> 0],
     [Date |-> "01/04/2023", Open |-> 1050, Close |-> 1060, DividendAmount |-> 25]}

\* C5 as amended: for every trading timestamp i and dividend event k on the
\* same date the table has a row with that date, open[i], close[i] and the
\* amount of k; the date has exactly one row when no other timestamp and no
\* other event falls on it; the scenario gives exactly its two rows.
C5_MatchedDividendRows ==
    Returned =>
        /\ \A i \in 1..Len(InTimestamps), k \in 1..Len(InDividends) :
            ExpectedDate(InTimestamps[i], tz) = ExpectedDate(InDividends[k].date, tz) =>
                /\ \E n \in 1..Len(retHist[1]) :
                    retHist[1][n] = [Date |-> ExpectedDate(InTimestamps[i], tz),
                                     Open |-> InOpen[i], Close |-> InClose[i],
                                     DividendAmount |-> InDividends[k].amount]
                /\ (/\ TradingOn(ExpectedDate(InTimestamps[i], tz)) = 1
                    /\ DividendsOn(ExpectedDate(InTimestamps[i], tz)) = 1)
                    => RowsOn(retHist[1], ExpectedDate(InTimestamps[i], tz)) = 1
        /\ jsonHistData = Some(ScenarioPayload) =>
            /\ Len(retHist[1]) = 2
            /\ {retHist[1][n] : n \in 1..2} = ScenarioRows

\* the scenario's table was returned
C5_Witness ==
    /\ Returned
    /\ jsonHistData = Some(ScenarioPayload)
    /\ \E n \in 1..Len(retHist[1]) : retHist[1][n].DividendAmount = 25

\* C6 as stated: the trading-day table has one row per unique input
\* timestamp, row i pairing the date of timestamp i with open[i] and
\* close[i], also when a timestamp is repeated.
C6_OneRowPerUniqueTimestamp ==
    (Returned /\ Len(InTimestamps) > 0) =>
        /\ Len(df_hist) = Cardinality({InTimestamps[i] : i \in 1..Len(InTimestamps)})
        /\ \A i \in 1..Len(df_hist) :
            df_hist[i] = [Date |-> ExpectedDate(InTimestamps[i], tz),
                          Open |-> InOpen[i], Close |-> InClose[i]]

\* C6 as amended: the trading-day table has one row per position of the
\* timestamp sequence (a repeated timestamp gives repeated rows), row i
\* pairing the month/day/year date of timestamp i with open[i] and close[i].
C6_OneRowPerTimestampPosition ==
    Returned =>
        /\ Len(df_hist) = Len(InTimestamps)
        /\ \A i \in 1..Len(InTimestamps) :
            df_hist[i] = [Date |-> ExpectedDate(InTimestamps[i], tz),
                          Open |-> InOpen[i], Close |-> InClose[i]]

\* a trading-day table was built from a sequence that repeats a timestamp
C6_Witness ==
    /\ Returned
    /\ Len(InTimestamps) = 2
    /\ InTimestamps[1] = InTimestamps[2]
    /\ Len(df_hist) = 2

\* C10: a dividend event on a date without trading has a row with null Open
\* and Close and the event's amount; the fill leaves Date, Open and Close of
\* every row as the merge produced them and only turns null amounts into 0.
C10_FillTouchesDividendAmountOnly ==
    Returned =>
        /\ \A k \in 1..Len(InDividends) :
            ExpectedDate(InDividends[k].date, tz) \notin TradingDates =>
                \E n \in 1..Len(retHist[1]) :
                    retHist[1][n] = [Date |-> ExpectedDate(InDividends[k].date, tz),
                                     Open |-> NaN, Close |-> NaN,
                                     DividendAmount |-> InDividends[k].amount]
        /\ Len(retHist[1]) = Len(df_merged)
        /\ \A n \in 1..Len(df_merged) :
            /\ retHist[1][n].Date = df_merged[n].Date
            /\ retHist[1][n].Open = df_merged[n].Open
            /\ retHist[1][n].Close = df_merged[n].Close
            /\ retHist[1][n].DividendAmount =
                IF df_merged[n].DividendAmount = NaN THEN 0 ELSE df_merged[n].DividendAmount

\* a table with a dividend-only row (null prices) and a filled trading row
C10_Witness ==
    /\ Returned
    /\ \E n \in 1..Len(retHist[1]) :
        /\ retHist[1][n].Open = NaN
        /\ retHist[1][n].DividendAmount \in SampleAmounts
    /\ \E n \in 1..Len(df_merged) :
        /\ df_merged[n].DividendAmount = NaN
        /\ retHist[1][n].DividendAmount = 0

----------------------------------------------------------------------------
(* Properties of the construction, checked under Spec *)

Terminated == pc \in {"constructed", "raised"}

Failed(endpoint) ==
    \E i \in 1..Len(calls) : calls[i].endpoint = endpoint /\ calls[i].status # 200

Endpoints == <<"get-chart", "get-histories", "get-statistics">>

\* C1 as stated: when one of the three lookups returns a non-success status
\* the construction ends with an explicit error that names a failed lookup,
\* not with an uncontrolled fault.
C1_ExplicitErrorNamesLookup ==
    (Terminated /\ \E e \in {"get-chart", "get-histories", "get-statistics"} : Failed(e)) =>
        /\ pc = "raised"
        /\ fault.type \notin {"TypeError", "KeyError"}
        /\ Failed(fault.at)

\* C2 as stated: for each of the three lookups a non-success status makes
\* the value it returns None, the construction never completes, and it ends
\* in the missing-data fault of the first parsing step that reads the absent
\* payload (create_hist_df for history, parse_statistics for statistics, the
\* latter when the delivered history payload itself could be reshaped).
C2_AnyFailedLookupEndsInFault ==
    /\ Failed("get-chart") => first_trade_date = None
    /\ (Failed("get-histories") /\ Len(calls) >= 2) => jsonHistData = None
    /\ (Failed("get-statistics") /\ Len(calls) >= 3) => jsonStatData = None
    /\ (Terminated /\ \E e \in {"get-chart", "get-histories", "get-statistics"} : Failed(e)) =>
        /\ pc = "raised"
        /\ Failed("get-histories") => fault = Raise("TypeError", "create_hist_df")
        /\ (Failed("get-statistics") /\ ~Failed("get-histories") /\ HasEvents(jsonHistData))
            => fault = Raise("TypeError", "parse_statistics")

\* C2 as amended: a non-success status makes each lookup return None.  After
\* a failed history or statistics lookup the construction never completes
\* and never exposes both results: a failed history lookup ends it with the
\* TypeError of create_hist_df; a failed statistics lookup (history
\* succeeded) ends it with the TypeError of parse_statistics, unless
\* create_hist_df already raised KeyError on a history payload without an
\* events object.  A failed first-trade-date lookup only makes the history
\* request's 'from' parameter None and does not by itself end the
\* construction.
C2_FailedPayloadLookupEndsInFault ==
    /\ Failed("get-chart") => first_trade_date = None
    /\ (Failed("get-chart") /\ Len(calls) >= 2) => calls[2].from = None
    /\ (Failed("get-histories") /\ Len(calls) >= 2) => jsonHistData = None
    /\ (Failed("get-statistics") /\ Len(calls) >= 3) => jsonStatData = None
    /\ (Failed("get-histories") \/ Failed("get-statistics")) =>
        /\ pc # "constructed"
        /\ dict_statistics = None
    /\ (pc = "raised" /\ Failed("get-histories")) =>
        /\ fault = Raise("TypeError", "create_hist_df")
        /\ df_historical_values = None
    /\ (pc = "raised" /\ Failed("get-statistics") /\ ~Failed("get-histories")) =>
        \/ fault = Raise("TypeError", "parse_statistics") /\ df_historical_values # None
        \/ /\ fault = Raise("KeyError", "create_hist_df")
           /\ ~HasEvents(jsonHistData)
           /\ df_historical_values = None

\* the statistics lookup failed after a successful history lookup, the table
\* was built and parse_statistics raised
C2_Witness ==
    /\ pc = "raised"
    /\ Failed("get-statistics")
    /\ ~Failed("get-histories")
    /\ fault.at = "parse_statistics"
    /\ df_historical_values # None

\* the fixed metric names and the path of each in the statistics body
MetricPath ==
    [payout_ratio            |-> <<"summaryDetail", "payoutRatio">>,
     dividend_rate           |-> <<"summaryDetail", "dividendRate">>,
     beta                    |-> <<"summaryDetail", "beta">>,
     trailing_pe             |-> <<"summaryDetail", "trailingPE">>,
     forward_pe              |-> <<"summaryDetail", "forwardPE">>,
     five_year_avg_div_yield |-> <<"summaryDetail", "fiveYearAvgDividendYield">>,
     div_yield               |-> <<"summaryDetail", "dividendYield">>,
     forward_eps             |-> <<"defaultKeyStatistics", "forwardEps">>,
     trailing_eps            |-> <<"defaultKeyStatistics", "trailingEps">>,
     ebitda_margins          |-> <<"financialData", "ebitdaMargins">>,
     profit_margins          |-> <<"financialData", "profitMargins">>,
     gross_margins           |-> <<"financialData", "grossMargins">>,
     op_cashflow             |-> <<"financialData", "operatingCashflow">>,
     revenue_growth          |-> <<"financialData", "revenueGrowth">>,
     operating_margins       |-> <<"financialData", "operatingMargins">>,
     gross_profits           |-> <<"financialData", "grossProfits">>,
     free_cashflow           |-> <<"financialData", "freeCashflow">>,
     earnings_growth         |-> <<"financialData", "earningsGrowth">>,
     page_short_term_trend   |-> <<"pageViews", "shortTermTrend">>,
     page_mid_term_trend     |-> <<"pageViews", "midTermTrend">>,
     page_long_term_trend    |-> <<"pageViews", "longTermTrend">>]

TrendKeys == {"page_short_term_trend", "page_mid_term_trend", "page_long_term_trend"}

AtPath(body, key) ==
    IF key \in TrendKeys
    THEN body[MetricPath[key][1]][MetricPath[key][2]]
    ELSE body[MetricPath[key][1]][MetricPath[key][2]].raw

IsFlattened(mapping, body) ==
    /\ DOMAIN mapping = DOMAIN MetricPath
    /\ \A key \in DOMAIN MetricPath : mapping[key] = AtPath(body, key)

\* C7: for a statistics payload with every required group and field,
\* parse_statistics returns (it does not raise) a mapping whose keys are the
\* fixed metric names and whose values are the payload's values at the fixed
\* paths, unchanged.
C7_StatisticsFlattening ==
    /\ dict_statistics # None => IsFlattened(dict_statistics[1], jsonStatData[1])
    /\ retStat # None => IsFlattened(retStat[1], jsonStatData[1])
    /\ (pc = "raised" /\ fault.at = "parse_statistics") =>
        jsonStatData \notin {Some(body) : body \in CompleteStatPayloads}

\* a construction flattened a complete statistics payload
C7_Witness ==
    /\ pc = "constructed"
    /\ jsonStatData = Some(StatPayload(200, "NEUTRAL", "UP", "DOWN"))
    /\ dict_statistics # None
    /\ dict_statistics[1].forward_pe = 205

====
